---- MODULE Spec2Model ----
(***************************************************************************)
(* A model of the SLON codec (src/rust/src/lib.rs): the recursive-descent  *)
(* decoder `parse`, run one loop iteration or one call at a time over a    *)
(* byte buffer, and the encoder `stringify` as a pure operator.            *)
(*                                                                         *)
(* Text is a sequence of bytes (0..255), a Rust `String` is a sequence of  *)
(* Unicode scalar values, and the two are related by UTF-8.  The cursor    *)
(* `pos` is 0-based as in the source: the byte under it is input[pos + 1]. *)
(***************************************************************************)
EXTENDS Integers, Sequences, FiniteSets, TLC

\* ------------------------------------------------------------------ bytes
TAB == 9
LF == 10
FF == 12
CR == 13
SPACE == 32
DQUOTE == 34
SQUOTE == 39
LPAREN == 40
RPAREN == 41
PLUS == 43
COMMA == 44
MINUS == 45
DOT == 46
SLASH == 47
COLON == 58
LBRACKET == 91
BACKSLASH == 92
RBRACKET == 93
PIPE == 124
BACKSPACE == 8
DatetimeLen == 23

Digit(b) == b \in 48..57
HexDigit(b) == b \in 48..57 \/ b \in 65..70 \/ b \in 97..102
HexVal(b) == IF b \in 48..57 THEN b - 48 ELSE IF b \in 65..70 THEN b - 55 ELSE b - 87

\* is_delimiter, is_whitespace
is_delimiter(ch) == ch \in {COLON, COMMA, LPAREN, RPAREN, LBRACKET, RBRACKET, PIPE}
is_whitespace(ch) == ch \in {SPACE, TAB, CR, LF}

\* char::is_whitespace, as used by str::trim and format_key: the Unicode
\* White_Space property.
char_is_whitespace(c) ==
    \/ c \in 9..13
    \/ c \in {32, 133, 160, 5760, 8232, 8233, 8239, 8287, 12288}
    \/ c \in 8192..8202

\* ------------------------------------------------------------------ UTF-8
\* The bytes of one scalar value (String::as_bytes).
Utf8Char(c) ==
    IF c < 128 THEN <<c>>
    ELSE IF c < 2048 THEN <<192 + (c \div 64), 128 + (c % 64)>>
    ELSE IF c < 65536 THEN <<224 + (c \div 4096), 128 + ((c \div 64) % 64), 128 + (c % 64)>>
    ELSE <<240 + (c \div 262144), 128 + ((c \div 4096) % 64),
           128 + ((c \div 64) % 64), 128 + (c % 64)>>

RECURSIVE Utf8Encode(_)
Utf8Encode(s) == IF s = <<>> THEN <<>> ELSE Utf8Char(Head(s)) \o Utf8Encode(Tail(s))

Cont(b) == b \in 128..191

\* The length of the well-formed UTF-8 sequence that starts bs[i], 0 if none
\* does (std::str::from_utf8's validation: no overlong forms, no surrogates,
\* nothing above U+10FFFF).
Utf8SeqLen(bs, i) ==
    LET b == bs[i]
        n == Len(bs)
    IN  IF b < 128 THEN 1
        ELSE IF b \in 194..223
             THEN IF i + 1 <= n /\ Cont(bs[i + 1]) THEN 2 ELSE 0
        ELSE IF b \in 224..239
             THEN IF /\ i + 2 <= n
                     /\ Cont(bs[i + 1]) /\ Cont(bs[i + 2])
                     /\ (b = 224 => bs[i + 1] >= 160)
                     /\ (b = 237 => bs[i + 1] <= 159)
                  THEN 3 ELSE 0
        ELSE IF b \in 240..244
             THEN IF /\ i + 3 <= n
                     /\ Cont(bs[i + 1]) /\ Cont(bs[i + 2]) /\ Cont(bs[i + 3])
                     /\ (b = 240 => bs[i + 1] >= 144)
                     /\ (b = 244 => bs[i + 1] <= 143)
                  THEN 4 ELSE 0
        ELSE 0

RECURSIVE Utf8ValidFrom(_, _)
Utf8ValidFrom(bs, i) ==
    IF i > Len(bs) THEN TRUE
    ELSE LET k == Utf8SeqLen(bs, i)
         IN  IF k = 0 THEN FALSE ELSE Utf8ValidFrom(bs, i + k)

\* std::str::from_utf8(bs).is_ok()
Utf8Valid(bs) == Utf8ValidFrom(bs, 1)

Utf8Scalar(bs, i, k) ==
    IF k = 1 THEN bs[i]
    ELSE IF k = 2 THEN (bs[i] - 192) * 64 + (bs[i + 1] - 128)
    ELSE IF k = 3 THEN (bs[i] - 224) * 4096 + (bs[i + 1] - 128) * 64 + (bs[i + 2] - 128)
    ELSE (bs[i] - 240) * 262144 + (bs[i + 1] - 128) * 4096
         + (bs[i + 2] - 128) * 64 + (bs[i + 3] - 128)

RECURSIVE Utf8DecodeFrom(_, _)
Utf8DecodeFrom(bs, i) ==
    IF i > Len(bs) THEN <<>>
    ELSE LET k == Utf8SeqLen(bs, i)
         IN  <<Utf8Scalar(bs, i, k)>> \o Utf8DecodeFrom(bs, i + k)

\* The scalar values of a valid UTF-8 byte string (the chars of a &str).
Utf8Decode(bs) == Utf8DecodeFrom(bs, 1)

\* input[a..b] of the source: 0-based, b exclusive.
Slice(inp, a, b) == SubSeq(inp, a + 1, b)

\* ------------------------------------------------------------------ Value
\* enum Value.  A Number is the decimal neg * m * 10^e with m not divisible
\* by 10 (m = 0 has e = 0): for the short tokens of this model the decimal
\* and the f64 it rounds to determine one another.  An Object is the
\* BTreeMap's entries in iteration order, [k, v] records ascending by key.
Null == [t |-> "Null"]
Bool(b) == [t |-> "Bool", b |-> b]
Number(neg, m, e) == [t |-> "Number", neg |-> neg, m |-> m, e |-> e]
String(s) == [t |-> "String", s |-> s]
Array(items) == [t |-> "Array", items |-> items]
Object(map) == [t |-> "Object", map |-> map]
Date(dt) == [t |-> "Date", dt |-> dt]

\* Ord for String: lexicographic by scalar value (equal to the byte order of
\* the UTF-8 forms).
RECURSIVE StrLess(_, _)
StrLess(a, b) ==
    IF b = <<>> THEN FALSE
    ELSE IF a = <<>> THEN TRUE
    ELSE IF Head(a) # Head(b) THEN Head(a) < Head(b)
    ELSE StrLess(Tail(a), Tail(b))

\* An insert that leaves the entry of an equal key as it is.
RECURSIVE InsertKeepingFirst(_, _, _)
InsertKeepingFirst(map, k, v) ==
    IF map = <<>> THEN <<[k |-> k, v |-> v]>>
    ELSE IF Head(map).k = k THEN map
    ELSE IF StrLess(k, Head(map).k) THEN <<[k |-> k, v |-> v]>> \o map
    ELSE <<Head(map)>> \o InsertKeepingFirst(Tail(map), k, v)

\* An insert into a map that keeps insertion order.
RECURSIVE InsertInOrderOfArrival(_, _, _)
InsertInOrderOfArrival(map, k, v) ==
    IF map = <<>> THEN <<[k |-> k, v |-> v]>>
    ELSE IF Head(map).k = k THEN <<[k |-> k, v |-> v]>> \o Tail(map)
    ELSE <<Head(map)>> \o InsertInOrderOfArrival(Tail(map), k, v)

\* BTreeMap::insert: the entry of an equal key is overwritten in place, a
\* new key goes to its place in key order.
RECURSIVE BTreeInsert(_, _, _)
BTreeInsert(map, k, v) ==
    IF map = <<>> THEN <<[k |-> k, v |-> v]>>
    ELSE IF Head(map).k = k THEN <<[k |-> k, v |-> v]>> \o Tail(map)
    ELSE IF StrLess(k, Head(map).k) THEN <<[k |-> k, v |-> v]>> \o map
    ELSE <<Head(map)>> \o BTreeInsert(Tail(map), k, v)

\* PartialEq for Value (derived): structural, with f64's -0.0 == 0.0.
RECURSIVE ValueEq(_, _)
ValueEq(a, b) ==
    IF a.t # b.t THEN FALSE
    ELSE IF a.t = "Number" THEN a.m = b.m /\ a.e = b.e /\ (a.m = 0 \/ a.neg = b.neg)
    ELSE IF a.t = "Array"
         THEN /\ Len(a.items) = Len(b.items)
              /\ \A i \in 1..Len(a.items) : ValueEq(a.items[i], b.items[i])
    ELSE IF a.t = "Object"
         THEN /\ Len(a.map) = Len(b.map)
              /\ \A i \in 1..Len(a.map) :
                    a.map[i].k = b.map[i].k /\ ValueEq(a.map[i].v, b.map[i].v)
    ELSE a = b

\* ------------------------------------------------------------------ f64
RECURSIVE DigitRunEnd(_, _)
DigitRunEnd(bs, i) ==
    IF i <= Len(bs) /\ Digit(bs[i]) THEN DigitRunEnd(bs, i + 1) ELSE i

\* The number written by the digits bs[a .. b-1].
RECURSIVE DigitsVal(_, _, _)
DigitsVal(bs, a, b) ==
    IF b <= a THEN 0 ELSE DigitsVal(bs, a, b - 1) * 10 + (bs[b - 1] - 48)

RECURSIVE NumDigits(_)
NumDigits(m) == IF m < 10 THEN 1 ELSE 1 + NumDigits(m \div 10)

RECURSIVE Pow10(_)
Pow10(k) == IF k <= 0 THEN 1 ELSE 10 * Pow10(k - 1)

RECURSIVE Normalize(_, _, _)
Normalize(neg, m, e) ==
    IF m = 0 THEN [neg |-> neg, m |-> 0, e |-> 0]
    ELSE IF m % 10 = 0 THEN Normalize(neg, m \div 10, e + 1)
    ELSE [neg |-> neg, m |-> m, e |-> e]

\* f64::MAX is 1.7976931348623157e308: a decimal of at most nine digits
\* rounds to infinity exactly when it exceeds 1.79769313e308.
F64MaxMagnitude == 309
F64MaxLead9 == 179769313
\* Below 1e-324 a decimal rounds to zero.
F64MinMagnitude == -324

\* <f64 as FromStr>::from_str on a run of [+-.eE0-9]: sign? (digits
\* [. digits?] | . digits) ([eE] sign? digits)?; [kind |-> "err"], or the
\* value with kind "finite" or "inf".
ParseF64(bs) ==
    LET n == Len(bs)
        signed == n >= 1 /\ bs[1] \in {PLUS, MINUS}
        neg == n >= 1 /\ bs[1] = MINUS
        s0 == IF signed THEN 2 ELSE 1
        i1 == DigitRunEnd(bs, s0)
        hasDot == i1 <= n /\ bs[i1] = DOT
        f0 == IF hasDot THEN i1 + 1 ELSE i1
        f1 == IF hasDot THEN DigitRunEnd(bs, f0) ELSE f0
        nd == (i1 - s0) + (f1 - f0)
        hasExp == f1 <= n /\ bs[f1] \in {69, 101}
        x0 == f1 + 1
        xsigned == hasExp /\ x0 <= n /\ bs[x0] \in {PLUS, MINUS}
        xneg == hasExp /\ x0 <= n /\ bs[x0] = MINUS
        xs == IF xsigned THEN x0 + 1 ELSE x0
        x1 == IF hasExp THEN DigitRunEnd(bs, xs) ELSE f1
        ok == nd >= 1 /\ (hasExp => x1 > xs) /\ x1 = n + 1
    IN  IF ~ok THEN [kind |-> "err"]
        ELSE LET mant == DigitsVal(bs, s0, i1) * Pow10(f1 - f0) + DigitsVal(bs, f0, f1)
                 xv == IF hasExp THEN DigitsVal(bs, xs, x1) ELSE 0
                 d == Normalize(neg, mant, (IF xneg THEN 0 - xv ELSE xv) - (f1 - f0))
                 mag == NumDigits(d.m) + d.e
             IN  IF d.m = 0 THEN [kind |-> "finite", v |-> Number(neg, 0, 0)]
                 ELSE IF mag > F64MaxMagnitude
                         \/ (mag = F64MaxMagnitude
                             /\ d.m * Pow10(9 - NumDigits(d.m)) > F64MaxLead9)
                      THEN [kind |-> "inf"]
                 ELSE IF mag <= F64MinMagnitude
                      THEN [kind |-> "finite", v |-> Number(neg, 0, 0)]
                 ELSE [kind |-> "finite", v |-> Number(neg, d.m, d.e)]

RECURSIVE DecDigits(_)
DecDigits(m) == IF m < 10 THEN <<48 + m>> ELSE DecDigits(m \div 10) \o <<48 + (m % 10)>>

RECURSIVE Zeros(_)
Zeros(k) == IF k <= 0 THEN <<>> ELSE <<48>> \o Zeros(k - 1)

\* format_value, Value::Number: "{:.0}" when fract() == 0.0, else
\* f64::to_string (the shortest digits that round-trip, never an exponent).
FormatNumber(v) ==
    LET sign == IF v.neg THEN <<MINUS>> ELSE <<>>
        ds == DecDigits(v.m)
        k == 0 - v.e
    IN  IF v.e >= 0 THEN sign \o ds \o Zeros(v.e)
        ELSE IF Len(ds) > k
             THEN sign \o SubSeq(ds, 1, Len(ds) - k) \o <<DOT>>
                       \o SubSeq(ds, Len(ds) - k + 1, Len(ds))
        ELSE sign \o <<48, DOT>> \o Zeros(k - Len(ds)) \o ds

\* ------------------------------------------------------------------ dates
DaysInMonth(y, m) ==
    IF m \in {4, 6, 9, 11} THEN 30
    ELSE IF m = 2
         THEN IF (y % 4 = 0 /\ y % 100 # 0) \/ y % 400 = 0 THEN 29 ELSE 28
    ELSE 31

\* NaiveDateTime::parse_from_str(slice, "%Y-%m-%d/%H:%M:%S.%3f") on the 23
\* bytes of the candidate, read as the fixed-width pattern
\* YYYY-MM-DD/HH:MM:SS.mmm: [ok |-> FALSE], or the fields.
ParseDatetime(bs) ==
    LET digitsAt == {1, 2, 3, 4, 6, 7, 9, 10, 12, 13, 15, 16, 18, 19, 21, 22, 23}
        shape == /\ Len(bs) = DatetimeLen
                 /\ \A i \in digitsAt : Digit(bs[i])
                 /\ bs[5] = MINUS /\ bs[8] = MINUS /\ bs[11] = SLASH
                 /\ bs[14] = COLON /\ bs[17] = COLON /\ bs[20] = DOT
        y == DigitsVal(bs, 1, 5)
        mo == DigitsVal(bs, 6, 8)
        d == DigitsVal(bs, 9, 11)
        h == DigitsVal(bs, 12, 14)
        mi == DigitsVal(bs, 15, 17)
        s == DigitsVal(bs, 18, 20)
        ms == DigitsVal(bs, 21, 24)
    IN  IF shape /\ mo \in 1..12 /\ d >= 1 /\ d <= DaysInMonth(y, mo)
              /\ h <= 23 /\ mi <= 59 /\ s <= 60
        THEN [ok |-> TRUE,
              dt |-> [y |-> y, mo |-> mo, d |-> d, h |-> h, mi |-> mi, s |-> s, ms |-> ms]]
        ELSE [ok |-> FALSE]

Pad(n, w) == Zeros(w - NumDigits(n)) \o DecDigits(n)

\* format_value, Value::Date: dt.format("%Y-%m-%d/%H:%M:%S.%3f")
FormatDate(dt) ==
    Pad(dt.y, 4) \o <<MINUS>> \o Pad(dt.mo, 2) \o <<MINUS>> \o Pad(dt.d, 2) \o <<SLASH>>
    \o Pad(dt.h, 2) \o <<COLON>> \o Pad(dt.mi, 2) \o <<COLON>> \o Pad(dt.s, 2)
    \o <<DOT>> \o Pad(dt.ms, 3)

\* ------------------------------------------------------------------ encoder
\* format_string: the five replacements, between single quotes.
RECURSIVE Escape(_)
Escape(s) ==
    IF s = <<>> THEN <<>>
    ELSE LET c == Head(s)
             e == IF c = BACKSLASH THEN <<BACKSLASH, BACKSLASH>>
                  ELSE IF c = SQUOTE THEN <<BACKSLASH, SQUOTE>>
                  ELSE IF c = LF THEN <<BACKSLASH, 110>>
                  ELSE IF c = CR THEN <<BACKSLASH, 114>>
                  ELSE IF c = TAB THEN <<BACKSLASH, 116>>
                  ELSE <<c>>
         IN  e \o Escape(Tail(s))

format_string(s) == <<SQUOTE>> \o Escape(s) \o <<SQUOTE>>

\* format_key: quoted when empty or holding a delimiter, a quote or
\* whitespace, bare otherwise.
KeyNeedsQuotes(key) ==
    \/ key = <<>>
    \/ \E i \in 1..Len(key) :
          \/ key[i] \in {COLON, COMMA, LPAREN, RPAREN, LBRACKET, RBRACKET, PIPE,
                         DQUOTE, SQUOTE}
          \/ char_is_whitespace(key[i])

format_key(key) == IF KeyNeedsQuotes(key) THEN format_string(key) ELSE key

RECURSIVE Join(_, _)
Join(parts, sep) ==
    IF parts = <<>> THEN <<>>
    ELSE IF Len(parts) = 1 THEN parts[1]
    ELSE parts[1] \o sep \o Join(Tail(parts), sep)

\* format_value: the chars of the text of a Value.
RECURSIVE format_value(_)
format_value(v) ==
    IF v.t = "Null" THEN <<110, 117, 108, 108>>
    ELSE IF v.t = "Bool"
         THEN IF v.b THEN <<116, 114, 117, 101>> ELSE <<102, 97, 108, 115, 101>>
    ELSE IF v.t = "Number" THEN FormatNumber(v)
    ELSE IF v.t = "String" THEN format_string(v.s)
    ELSE IF v.t = "Array"
         THEN <<LBRACKET>>
              \o Join([i \in 1..Len(v.items) |-> format_value(v.items[i])],
                      <<SPACE, PIPE, SPACE>>)
              \o <<RBRACKET>>
    ELSE IF v.t = "Object"
         THEN <<LPAREN>>
              \o Join([i \in 1..Len(v.map) |->
                         format_key(v.map[i].k) \o <<COLON, SPACE>>
                         \o format_value(v.map[i].v)],
                      <<COMMA, SPACE>>)
              \o <<RPAREN>>
    ELSE FormatDate(v.dt)

\* stringify, as the bytes of the String it returns.
stringify(v) == Utf8Encode(format_value(v))

\* ------------------------------------------------------------------ decoder
VARIABLES
    given,    \* what the input text was made from (fixed by Init)
    input,    \* Parser.input: the bytes of the text
    pos,      \* Parser.pos
    mode,     \* where the decoder is: the call or loop about to run
    stack,    \* the parse_object / parse_array calls in progress, innermost last
    quote,    \* parse_quoted_string: the opening quote
    buf,      \* parse_quoted_string: `result`, the chars decoded so far
    start,    \* parse_unquoted_string / parse_number: `start`
    ret,      \* the Value a finished call hands to its caller
    result    \* what parse returned

vars == <<given, input, pos, mode, stack, quote, buf, start, ret, result>>

NoValue == [t |-> "None"]
NoResult == [status |-> "none"]
Ok(v) == [status |-> "ok", value |-> v]
\* Parser::error
Err(msg, p) == [status |-> "err", message |-> msg, position |-> p]
\* a failed unwrap(): the call unwinds and returns nothing
Panicked == [status |-> "panic"]

len == Len(input)

\* Parser::is_end, Parser::peek (-1 for None), Parser::advance
is_end(inp, p) == p >= Len(inp)
peek(inp, p) == IF is_end(inp, p) THEN -1 ELSE inp[p + 1]
Advance(p, count) == p + count

\* a skip_whitespace that knows the space only
SkipOnlySpaces(inp, p) ==
    LET rest == {q \in p..Len(inp) : q = Len(inp) \/ inp[q + 1] # SPACE}
    IN  CHOOSE q \in rest : \A r \in rest : q <= r

\* Parser::skip_whitespace: the cursor after it
RECURSIVE skip_whitespace(_, _)
skip_whitespace(inp, p) ==
    IF p < Len(inp) /\ inp[p + 1] \in {SPACE, LF, TAB, CR}
    THEN skip_whitespace(inp, p + 1)
    ELSE p

KwTrue == <<116, 114, 117, 101>>
KwFalse == <<102, 97, 108, 115, 101>>
KwNull == <<110, 117, 108, 108>>

\* a match_keyword that also consumes the byte after the keyword
MatchKeywordPastBoundary(inp, p, keyword) ==
    LET end == p + Len(keyword)
    IN  IF /\ end <= Len(inp)
           /\ Slice(inp, p, end) = keyword
           /\ (end = Len(inp) \/ is_delimiter(inp[end + 1]) \/ is_whitespace(inp[end + 1]))
        THEN [some |-> TRUE, pos |-> end + 1]
        ELSE [some |-> FALSE, pos |-> p]

\* Parser::match_keyword: whether the keyword is matched, and the cursor after
match_keyword(inp, p, keyword) ==
    LET end == p + Len(keyword)
    IN  IF /\ end <= Len(inp)
           /\ Slice(inp, p, end) = keyword
           /\ (end = Len(inp) \/ is_delimiter(inp[end + 1]) \/ is_whitespace(inp[end + 1]))
        THEN [some |-> TRUE, pos |-> end]
        ELSE [some |-> FALSE, pos |-> p]

\* Parser::try_parse_datetime: Ok(Some(dt)) with the cursor moved, Ok(None),
\* or the unwrap of from_utf8 panicking on a window that cuts a character.
try_parse_datetime(inp, p) ==
    IF p + DatetimeLen > Len(inp) THEN [kind |-> "none"]
    ELSE LET candidate == Slice(inp, p, p + DatetimeLen)
         IN  IF ~Utf8Valid(candidate) THEN [kind |-> "panic"]
             ELSE LET naive == ParseDatetime(candidate)
                  IN  IF ~naive.ok THEN [kind |-> "none"]
                      ELSE IF /\ p + DatetimeLen < Len(inp)
                              /\ ~is_delimiter(inp[p + DatetimeLen + 1])
                              /\ ~is_whitespace(inp[p + DatetimeLen + 1])
                           THEN [kind |-> "none"]
                      ELSE [kind |-> "date", dt |-> naive.dt,
                            pos |-> Advance(p, DatetimeLen)]

\* u16::from_str_radix(hex_str, 16) on four bytes: an optional '+', then hex
\* digits only, at least one; -1 for Err.
RECURSIVE HexValue(_)
HexValue(bs) == IF bs = <<>> THEN 0 ELSE HexValue(SubSeq(bs, 1, Len(bs) - 1)) * 16 + HexVal(bs[Len(bs)])

from_str_radix16(bs) ==
    LET digits == IF bs[1] = PLUS THEN Tail(bs) ELSE bs
    IN  IF digits # <<>> /\ \A i \in 1..Len(digits) : HexDigit(digits[i])
        THEN HexValue(digits)
        ELSE -1

\* Parser::parse_escape, entered with the cursor p on the escape byte
parse_escape(inp, p, escape) ==
    LET p1 == Advance(p, 1)
        simple(c) == [kind |-> "char", c |-> c, pos |-> p1]
    IN  IF escape = DQUOTE THEN simple(DQUOTE)
        ELSE IF escape = SQUOTE THEN simple(SQUOTE)
        ELSE IF escape = BACKSLASH THEN simple(BACKSLASH)
        ELSE IF escape = SLASH THEN simple(SLASH)
        ELSE IF escape = 98 THEN simple(BACKSPACE)
        ELSE IF escape = 102 THEN simple(FF)
        ELSE IF escape = 110 THEN simple(LF)
        ELSE IF escape = 114 THEN simple(CR)
        ELSE IF escape = 116 THEN simple(TAB)
        ELSE IF escape = 117
             THEN LET end == p1 + 4
                  IN  IF end > Len(inp)
                      THEN [kind |-> "err", message |-> "Invalid unicode escape", pos |-> p1]
                      ELSE LET hex == Slice(inp, p1, end)
                           IN  IF ~Utf8Valid(hex) THEN [kind |-> "panic"]
                               ELSE LET code == from_str_radix16(hex)
                                    IN  IF code < 0
                                        THEN [kind |-> "err",
                                              message |-> "Invalid unicode escape",
                                              pos |-> p1]
                                        ELSE IF code \in 55296..57343
                                        THEN [kind |-> "err",
                                              message |-> "Invalid unicode scalar value",
                                              pos |-> Advance(p1, 4)]
                                        ELSE [kind |-> "char", c |-> code,
                                              pos |-> Advance(p1, 4)]
        ELSE [kind |-> "err", message |-> "Unknown escape sequence", pos |-> p1]

\* str::trim
RECURSIVE TrimStart(_)
TrimStart(s) ==
    IF s # <<>> /\ char_is_whitespace(Head(s)) THEN TrimStart(Tail(s)) ELSE s
RECURSIVE TrimEnd(_)
TrimEnd(s) ==
    IF s # <<>> /\ char_is_whitespace(s[Len(s)])
    THEN TrimEnd(SubSeq(s, 1, Len(s) - 1))
    ELSE s
Trim(s) == TrimEnd(TrimStart(s))

\* ------------------------------------------------------------------ steps
Scratch == quote' = 0 /\ buf' = <<>> /\ start' = 0

\* `return Err(self.error(msg))` with the cursor at p: the error propagates
\* through every `?` to the caller of parse.
Fail(msg, p) ==
    /\ mode' = "done"
    /\ result' = Err(msg, p)
    /\ pos' = p
    /\ stack' = <<>>
    /\ ret' = NoValue
    /\ Scratch
    /\ UNCHANGED <<given, input>>

\* an unwrap() panics with the cursor at p
Panic(p) ==
    /\ mode' = "done"
    /\ result' = Panicked
    /\ pos' = p
    /\ stack' = <<>>
    /\ ret' = NoValue
    /\ Scratch
    /\ UNCHANGED <<given, input>>

\* a parse_* call returns Ok(v) to its caller with the cursor at p
Return(v, p) ==
    /\ mode' = "return"
    /\ ret' = v
    /\ pos' = p
    /\ Scratch
    /\ UNCHANGED <<given, input, stack, result>>

InKey == stack # <<>> /\ stack[Len(stack)].kind = "object" /\ stack[Len(stack)].phase = "key"

\* parse_quoted_string / parse_unquoted_string return Ok(s): to parse_object
\* as the key (through parse_string_like), or to parse_value as a
\* Value::String.
ReturnString(s, p) ==
    IF InKey
    THEN /\ stack' = [stack EXCEPT ![Len(stack)].key = s, ![Len(stack)].phase = "value"]
         /\ mode' = "colon"
         /\ pos' = p
         /\ ret' = NoValue
         /\ Scratch
         /\ UNCHANGED <<given, input, result>>
    ELSE Return(String(s), p)

\* parse_quoted_string up to its loop: the quote is consumed
EnterQuoted(p) ==
    /\ mode' = "quoted"
    /\ quote' = input[p + 1]
    /\ pos' = Advance(p, 1)
    /\ buf' = <<>>
    /\ start' = 0
    /\ ret' = NoValue
    /\ UNCHANGED <<given, input, stack, result>>

\* parse_unquoted_string / parse_number up to their loops
EnterRun(m, p) ==
    /\ mode' = m
    /\ start' = p
    /\ pos' = p
    /\ quote' = 0
    /\ buf' = <<>>
    /\ ret' = NoValue
    /\ UNCHANGED <<given, input, stack, result>>

\* parse: the Parser is made and leading whitespace skipped
ParseBegin ==
    /\ mode = "start"
    /\ mode' = "value"
    /\ pos' = skip_whitespace(input, pos)
    /\ UNCHANGED <<given, input, stack, quote, buf, start, ret, result>>

\* parse_value reporting the end of the input where the whitespace starts
ParseValueEndBeforeWhitespace ==
    /\ mode = "value"
    /\ is_end(input, skip_whitespace(input, pos))
    /\ Fail("Unexpected end of input", pos)

\* parse_value at the end of the input
ParseValueEnd ==
    /\ mode = "value"
    /\ LET p == skip_whitespace(input, pos)
       IN  /\ is_end(input, p)
           /\ Fail("Unexpected end of input", p)

\* parse_value on '(': parse_object up to the head of its loop
ParseObject ==
    /\ mode = "value"
    /\ LET p == skip_whitespace(input, pos)
       IN  /\ peek(input, p) = LPAREN
           /\ LET q == skip_whitespace(input, Advance(p, 1))
              IN  IF peek(input, q) = RPAREN
                  THEN Return(Object(<<>>), Advance(q, 1))
                  ELSE /\ stack' = Append(stack, [kind |-> "object", map |-> <<>>,
                                                  key |-> <<>>, phase |-> "key"])
                       /\ mode' = "key"
                       /\ pos' = q
                       /\ ret' = NoValue
                       /\ Scratch
                       /\ UNCHANGED <<given, input, result>>

\* parse_value on '[': parse_array up to the head of its loop
ParseArray ==
    /\ mode = "value"
    /\ LET p == skip_whitespace(input, pos)
       IN  /\ peek(input, p) = LBRACKET
           /\ LET q == skip_whitespace(input, Advance(p, 1))
              IN  IF peek(input, q) = RBRACKET
                  THEN Return(Array(<<>>), Advance(q, 1))
                  ELSE /\ stack' = Append(stack, [kind |-> "array", items |-> <<>>])
                       /\ mode' = "value"
                       /\ pos' = q
                       /\ ret' = NoValue
                       /\ Scratch
                       /\ UNCHANGED <<given, input, result>>

\* parse_value on a quote
ParseValueQuoted ==
    /\ mode = "value"
    /\ LET p == skip_whitespace(input, pos)
       IN  /\ peek(input, p) \in {SQUOTE, DQUOTE}
           /\ EnterQuoted(p)

DateOrNumberByte(ch) == ch = MINUS \/ Digit(ch)

\* parse_value on '-' or a digit: try_parse_datetime, then parse_number
ParseDateOrNumber ==
    /\ mode = "value"
    /\ LET p == skip_whitespace(input, pos)
       IN  /\ DateOrNumberByte(peek(input, p))
           /\ LET d == try_parse_datetime(input, p)
              IN  IF d.kind = "panic" THEN Panic(p)
                  ELSE IF d.kind = "date" THEN Return(Date(d.dt), d.pos)
                  ELSE EnterRun("number", p)

\* parse_value on any other byte: the three keywords, then
\* parse_unquoted_string
ParseKeywordOrBare ==
    /\ mode = "value"
    /\ LET p == skip_whitespace(input, pos)
           c == peek(input, p)
           t == match_keyword(input, p, KwTrue)
           f == match_keyword(input, p, KwFalse)
           n == match_keyword(input, p, KwNull)
       IN  /\ ~is_end(input, p)
           /\ c \notin {LPAREN, LBRACKET, SQUOTE, DQUOTE}
           /\ ~DateOrNumberByte(c)
           /\ IF t.some THEN Return(Bool(TRUE), t.pos)
              ELSE IF f.some THEN Return(Bool(FALSE), f.pos)
              ELSE IF n.some THEN Return(Null, n.pos)
              ELSE EnterRun("unquoted", p)

\* parse_object, head of the loop: skip_whitespace and parse_string_like
ParseKey ==
    /\ mode = "key"
    /\ LET p == skip_whitespace(input, pos)
       IN  IF peek(input, p) \in {SQUOTE, DQUOTE}
           THEN EnterQuoted(p)
           ELSE EnterRun("unquoted", p)

\* parse_quoted_string: the loop ends without a closing quote
QuotedUnterminated ==
    /\ mode = "quoted"
    /\ is_end(input, pos)
    /\ Fail("Unterminated string literal", pos)

\* parse_quoted_string: the closing quote
QuotedClose ==
    /\ mode = "quoted"
    /\ peek(input, pos) = quote
    /\ ReturnString(buf, Advance(pos, 1))

\* parse_quoted_string: a backslash and parse_escape
QuotedEscape ==
    /\ mode = "quoted"
    /\ peek(input, pos) = BACKSLASH
    /\ LET p == Advance(pos, 1)
       IN  IF is_end(input, p) THEN Fail("Invalid escape", p)
           ELSE LET e == parse_escape(input, p, peek(input, p))
                IN  IF e.kind = "panic" THEN Panic(Advance(p, 1))
                    ELSE IF e.kind = "err" THEN Fail(e.message, e.pos)
                    ELSE /\ buf' = Append(buf, e.c)
                         /\ pos' = e.pos
                         /\ UNCHANGED <<given, input, mode, stack, quote, start, ret, result>>

\* parse_quoted_string: any other byte is pushed `as char`
QuotedChar ==
    /\ mode = "quoted"
    /\ ~is_end(input, pos)
    /\ peek(input, pos) \notin {quote, BACKSLASH}
    /\ buf' = Append(buf, peek(input, pos))
    /\ pos' = Advance(pos, 1)
    /\ UNCHANGED <<given, input, mode, stack, quote, start, ret, result>>

\* parse_unquoted_string: one iteration of the loop
UnquotedStep ==
    /\ mode = "unquoted"
    /\ ~is_end(input, pos)
    /\ ~(is_delimiter(peek(input, pos)) \/ is_whitespace(peek(input, pos)))
    /\ pos' = Advance(pos, 1)
    /\ UNCHANGED <<given, input, mode, stack, quote, buf, start, ret, result>>

\* parse_unquoted_string: after the loop
UnquotedEnd ==
    /\ mode = "unquoted"
    /\ is_end(input, pos) \/ is_delimiter(peek(input, pos)) \/ is_whitespace(peek(input, pos))
    /\ LET slice == Slice(input, start, pos)
       IN  IF ~Utf8Valid(slice) THEN Panic(pos)
           ELSE LET trimmed == Trim(Utf8Decode(slice))
                IN  IF trimmed = <<>> THEN Fail("Empty string value", pos)
                    ELSE ReturnString(trimmed, pos)

NumberByte(ch) == ch \in {PLUS, MINUS, DOT, 101, 69} \/ Digit(ch)

\* parse_number: one iteration of the loop
NumberStep ==
    /\ mode = "number"
    /\ NumberByte(peek(input, pos))
    /\ pos' = Advance(pos, 1)
    /\ UNCHANGED <<given, input, mode, stack, quote, buf, start, ret, result>>

\* parse_number: after the loop
NumberEnd ==
    /\ mode = "number"
    /\ ~NumberByte(peek(input, pos))
    /\ LET end == pos
           s == Slice(input, start, end)
       IN  IF ~Utf8Valid(s) THEN Panic(pos)
           ELSE IF end < len /\ ~is_delimiter(input[end + 1]) /\ ~is_whitespace(input[end + 1])
           THEN Fail("Invalid number boundary", pos)
           ELSE LET number == ParseF64(s)
                IN  IF number.kind = "err" THEN Fail("Invalid number", pos)
                    ELSE IF number.kind = "inf" THEN Fail("Non-finite number", pos)
                    ELSE Return(number.v, pos)

\* parse_object: the key is read; ':' and then parse_value
ObjectColon ==
    /\ mode = "colon"
    /\ LET p == skip_whitespace(input, pos)
       IN  IF peek(input, p) # COLON THEN Fail("Expected ':' after key", p)
           ELSE /\ mode' = "value"
                /\ pos' = Advance(p, 1)
                /\ UNCHANGED <<given, input, stack, quote, buf, start, ret, result>>

\* parse_object: the value is read; map.insert, then ',' or ')'
ObjectInsert ==
    /\ mode = "return"
    /\ stack # <<>>
    /\ stack[Len(stack)].kind = "object"
    /\ LET top == stack[Len(stack)]
           map == BTreeInsert(top.map, top.key, ret)
           p == skip_whitespace(input, pos)
       IN  IF peek(input, p) = COMMA
           THEN /\ stack' = [stack EXCEPT ![Len(stack)] =
                                [kind |-> "object", map |-> map, key |-> <<>>, phase |-> "key"]]
                /\ mode' = "key"
                /\ pos' = Advance(p, 1)
                /\ ret' = NoValue
                /\ UNCHANGED <<given, input, quote, buf, start, result>>
           ELSE IF peek(input, p) = RPAREN
           THEN /\ stack' = SubSeq(stack, 1, Len(stack) - 1)
                /\ mode' = "return"
                /\ ret' = Object(map)
                /\ pos' = Advance(p, 1)
                /\ UNCHANGED <<given, input, quote, buf, start, result>>
           ELSE Fail("Expected ',' or ')'", p)

\* parse_array: the value is read; items.push, then '|' or ']'
ArrayPush ==
    /\ mode = "return"
    /\ stack # <<>>
    /\ stack[Len(stack)].kind = "array"
    /\ LET items == Append(stack[Len(stack)].items, ret)
           p == skip_whitespace(input, pos)
       IN  IF peek(input, p) = PIPE
           THEN /\ stack' = [stack EXCEPT ![Len(stack)].items = items]
                /\ mode' = "value"
                /\ pos' = Advance(p, 1)
                /\ ret' = NoValue
                /\ UNCHANGED <<given, input, quote, buf, start, result>>
           ELSE IF peek(input, p) = RBRACKET
           THEN /\ stack' = SubSeq(stack, 1, Len(stack) - 1)
                /\ mode' = "return"
                /\ ret' = Array(items)
                /\ pos' = Advance(p, 1)
                /\ UNCHANGED <<given, input, quote, buf, start, result>>
           ELSE Fail("Expected '|' or ']'", p)

\* parse: the value is back; trailing whitespace, then the end of the input
ParseFinish ==
    /\ mode = "return"
    /\ stack = <<>>
    /\ LET p == skip_whitespace(input, pos)
       IN  IF ~is_end(input, p) THEN Fail("Unexpected trailing content", p)
           ELSE /\ mode' = "done"
                /\ result' = Ok(ret)
                /\ pos' = p
                /\ ret' = NoValue
                /\ UNCHANGED <<given, input, stack, quote, buf, start>>

Next ==
    \/ ParseBegin
    \/ ParseValueEnd
    \/ ParseObject
    \/ ParseArray
    \/ ParseValueQuoted
    \/ ParseDateOrNumber
    \/ ParseKeywordOrBare
    \/ ParseKey
    \/ QuotedUnterminated
    \/ QuotedClose
    \/ QuotedEscape
    \/ QuotedChar
    \/ UnquotedStep
    \/ UnquotedEnd
    \/ NumberStep
    \/ NumberEnd
    \/ ObjectColon
    \/ ObjectInsert
    \/ ArrayPush
    \/ ParseFinish

\* ------------------------------------------------------------------ inputs
\* The texts parse is run on.  `given` records what a text was made from:
\*   [kind |-> "text", chars]  the text itself, as scalar values;
\*   [kind |-> "value", v]     stringify(v), for the round trip;
\*   [kind |-> "pairs", ps]    an object text listing the pairs ps in order.
MaxLen == 3
MaxElems == 2
MaxPairs == 3

SeqsUpTo(S, n) == UNION {[1..k -> S] : k \in 0..n}

\* Every text of at most MaxLen of these bytes: space, the seven delimiters,
\* the single quote, a and 1.
ShortAlphabet ==
    {SPACE, LPAREN, RPAREN, COLON, COMMA, LBRACKET, RBRACKET, PIPE, SQUOTE, 97, 49}
ShortTexts == SeqsUpTo(ShortAlphabet, MaxLen)

\* What precedes the token under test: nothing, whitespace, or the text up to
\* a value position inside an array or an object.
Prefixes ==
    {
      <<>>,    \* (empty)
      <<32>>,    \* <SP>
      <<9, 10>>,    \* <TAB><LF>
      <<91>>,    \* [
      <<91, 49, 124>>,    \* [1|
      <<40, 97, 58>>,    \* (a:
      <<40, 97, 58, 49, 44, 39, 98, 39, 32, 58>>    \* (a:1,'b'<SP>:
    }

\* The tokens under test.
Cores ==
    {
      <<>>,    \* (empty)
      <<116, 114, 117, 101>>,    \* true
      <<102, 97, 108, 115, 101>>,    \* false
      <<110, 117, 108, 108>>,    \* null
      <<110, 117, 108, 108, 105, 115, 104>>,    \* nullish
      <<116, 114, 117, 101, 120>>,    \* truex
      <<102, 97, 108, 115, 101, 121>>,    \* falsey
      <<116, 114, 117>>,    \* tru
      <<111, 107>>,    \* ok
      <<116, 114, 117, 101, 12>>,    \* true<FF>
      <<12, 110, 117, 108, 108>>,    \* <FF>null
      <<12>>,    \* <FF>
      <<233>>,    \* <U+00E9>
      <<97, 233>>,    \* a<U+00E9>
      <<43, 49>>,    \* +1
      <<97, 39, 98>>,    \* a'b
      <<49>>,    \* 1
      <<45, 48>>,    \* -0
      <<49, 46, 53>>,    \* 1.5
      <<45, 49, 50, 101, 50>>,    \* -12e2
      <<48, 46, 48, 48, 53>>,    \* 0.005
      <<49, 101, 57, 57, 57>>,    \* 1e999
      <<49, 46>>,    \* 1.
      <<46>>,    \* .
      <<45>>,    \* -
      <<49, 101>>,    \* 1e
      <<49, 101, 45, 57, 57, 57>>,    \* 1e-999
      <<45, 45, 49>>,    \* --1
      <<50, 48, 50, 52, 45, 48, 51, 45, 48, 49>>,    \* 2024-03-01
      <<50, 48, 50, 52, 45, 48, 51, 45, 48, 49, 47, 49, 56, 58, 50, 50, 58, 49, 48, 46, 48, 48, 49>>,    \* 2024-03-01/18:22:10.001
      <<50, 48, 50, 52, 45, 49, 51, 45, 48, 49, 47, 49, 56, 58, 50, 50, 58, 49, 48, 46, 48, 48, 49>>,    \* 2024-13-01/18:22:10.001
      <<50, 48, 50, 51, 45, 48, 50, 45, 50, 57, 47, 48, 48, 58, 48, 48, 58, 48, 48, 46, 48, 48, 48>>,    \* 2023-02-29/00:00:00.000
      <<50, 48, 50, 52, 45, 48, 50, 45, 50, 57, 47, 50, 51, 58, 53, 57, 58, 54, 48, 46, 57, 57, 57>>,    \* 2024-02-29/23:59:60.999
      <<50, 48, 50, 52, 45, 48, 51, 45, 48, 49, 47, 49, 56, 58, 50, 50, 58, 49, 48, 46, 48, 48>>,    \* 2024-03-01/18:22:10.00
      <<50, 48, 50, 52, 45, 48, 51, 45, 48, 49, 47, 49, 56, 58, 50, 50, 58, 49, 48, 46, 48, 48, 233>>,    \* 2024-03-01/18:22:10.00<U+00E9>
      <<50, 48, 50, 52, 45, 48, 51, 45, 48, 49, 47, 49, 56, 58, 50, 50, 58, 233>>,    \* 2024-03-01/18:22:<U+00E9>
      <<50, 48, 50, 52, 45, 48, 51, 45, 48, 49, 47, 49, 56, 58, 50, 50, 58, 49, 48, 46, 48, 48, 49, 50>>,    \* 2024-03-01/18:22:10.0012
      <<39, 97, 39>>,    \* 'a'
      <<34, 97, 34>>,    \* "a"
      <<39, 39>>,    \* ''
      <<39, 97, 92, 39, 98, 39>>,    \* 'a\'b'
      <<34, 97, 39, 98, 34>>,    \* "a'b"
      <<39, 233, 39>>,    \* '<U+00E9>'
      <<39, 92, 110, 92, 116, 92, 114, 92, 98, 92, 102, 92, 47, 92, 92, 92, 34, 39>>,    \* '\n\t\r\b\f\/\\\"'
      <<39, 92, 113, 39>>,    \* '\q'
      <<39, 92, 117, 48, 48, 52, 49, 39>>,    \* '\u0041'
      <<39, 92, 117, 48, 48, 101, 57, 39>>,    \* '\u00e9'
      <<39, 92, 117, 48, 48, 69, 57, 39>>,    \* '\u00E9'
      <<39, 92, 117, 43, 48, 52, 49, 39>>,    \* '\u+041'
      <<39, 92, 117, 49, 50, 51, 233, 39>>,    \* '\u123<U+00E9>'
      <<39, 92, 117, 49, 50, 39>>,    \* '\u12'
      <<39, 92, 117, 68, 56, 48, 48, 39>>,    \* '\uD800'
      <<39, 92, 117, 68, 70, 70, 70, 39>>,    \* '\uDFFF'
      <<39, 92, 117, 49, 50, 122, 122, 39>>,    \* '\u12zz'
      <<39, 92, 117, 45, 48, 52, 49, 39>>,    \* '\u-041'
      <<39, 92, 117, 32, 48, 52, 49, 39>>,    \* '\u<SP>041'
      <<39, 92, 117, 49, 50, 233, 39>>,    \* '\u12<U+00E9>'
      <<39, 92, 117, 50, 48, 97, 99, 39>>,    \* '\u20ac'
      <<39, 97>>,    \* 'a
      <<39, 92>>,    \* '\
      <<39, 92, 117>>,    \* '\u
      <<39, 97, 32, 98, 39>>,    \* 'a<SP>b'
      <<91, 93>>,    \* []
      <<40, 41>>,    \* ()
      <<91, 32, 93>>,    \* [<SP>]
      <<40, 32, 41>>,    \* (<SP>)
      <<91, 49, 124, 50, 93>>,    \* [1|2]
      <<91, 49, 32, 124, 32, 39, 120, 39, 32, 124, 32, 110, 117, 108, 108, 93>>,    \* [1<SP>|<SP>'x'<SP>|<SP>null]
      <<91, 91, 49, 93, 124, 40, 97, 58, 91, 93, 41, 93>>,    \* [[1]|(a:[])]
      <<40, 97, 58, 49, 44, 97, 58, 50, 41>>,    \* (a:1,a:2)
      <<40, 97, 58, 49, 44, 39, 97, 39, 58, 50, 44, 98, 58, 51, 41>>,    \* (a:1,'a':2,b:3)
      <<40, 98, 58, 32, 39, 120, 39, 44, 32, 97, 58, 32, 39, 121, 39, 41>>,    \* (b:<SP>'x',<SP>a:<SP>'y')
      <<40, 34, 97, 34, 58, 49, 44, 97, 58, 116, 114, 117, 101, 41>>,    \* ("a":1,a:true)
      <<40, 97, 58, 49>>,    \* (a:1
      <<40, 97, 32, 49, 41>>,    \* (a<SP>1)
      <<40, 97, 58, 49, 59>>,    \* (a:1;
      <<91, 49, 44, 50, 93>>,    \* [1,2]
      <<40, 58, 49, 41>>,    \* (:1)
      <<40, 97, 58, 49, 44, 41>>    \* (a:1,)
    }

\* What follows the token under test.
Suffixes ==
    {
      <<>>,    \* (empty)
      <<32>>,    \* <SP>
      <<32, 13, 10>>,    \* <SP><CR><LF>
      <<32, 120>>,    \* <SP>x
      <<120>>,    \* x
      <<44>>,    \* ,
      <<93>>,    \* ]
      <<41>>,    \* )
      <<124>>,    \* |
      <<12>>,    \* <FF>
      <<233>>,    \* <U+00E9>
      <<32, 102, 97, 108, 115, 101>>    \* <SP>false
    }

TokenTexts == {p \o c \o s : p \in Prefixes, c \in Cores, s \in Suffixes}

\* Values for the round trip: finite numbers, keys that format_key leaves
\* bare, strings with and without escapes and non-ASCII chars, one Date;
\* arrays and objects of up to MaxElems of them, and two deeper nestings.
Date1 == [y |-> 2024, mo |-> 3, d |-> 1, h |-> 18, mi |-> 22, s |-> 10, ms |-> 1]
Scalars ==
    { Null, Bool(TRUE), Bool(FALSE),
      Number(FALSE, 0, 0), Number(FALSE, 3, 0), Number(TRUE, 15, -1),
      Number(FALSE, 12, 2), Number(FALSE, 5, -3),
      String(<<>>),                        \* (empty)
      String(<<97>>),                      \* a
      String(<<97, 39, 98, 92, 34>>),      \* a, single quote, b, backslash, double quote
      String(<<10, 9, 13, 32>>),           \* LF TAB CR SP
      String(<<116, 114, 117, 101>>),      \* true
      String(<<233>>),                     \* U+00E9
      Date(Date1) }
BareKeys == { <<97>>, <<98, 49>>, <<233>> }    \* a, b1, U+00E9

\* the entries of a map with the keys K and the values f, ascending by key
RECURSIVE Entries(_, _)
Entries(K, f) ==
    IF K = {} THEN <<>>
    ELSE LET k == CHOOSE x \in K : \A y \in K : x = y \/ StrLess(x, y)
         IN  <<[k |-> k, v |-> f[k]]>> \o Entries(K \ {k}, f)

Arrays(V) == {Array(items) : items \in SeqsUpTo(V, MaxElems)}
Objects(V) ==
    UNION {{Object(Entries(K, f)) : f \in [K -> V]} :
              K \in {K \in SUBSET BareKeys : Cardinality(K) <= MaxElems}}
Nested ==
    { Array(<<Object(<<[k |-> <<97>>, v |-> Array(<<Number(FALSE, 3, 0)>>)]>>), Array(<<>>)>>),
      Object(<<[k |-> <<97>>, v |-> Array(<<Null, Object(<<[k |-> <<98, 49>>, v |-> String(<<97>>)]>>)>>)],
               [k |-> <<98, 49>>, v |-> Object(<<>>)]>>) }
Values == Scalars \cup Arrays(Scalars) \cup Objects(Scalars) \cup Nested

\* Object texts for duplicate keys and key order: the pair [k, v] written
\* as kt ':' vt (kc is the key as the encoder is to write it); the keys
\* a, b and `a b`, bare and quoted.
PairKeys ==
    { [k |-> <<97>>, kt |-> <<97>>, kc |-> <<97>>],                 \* a
      [k |-> <<97>>, kt |-> <<39, 97, 39>>, kc |-> <<97>>],         \* 'a'
      [k |-> <<98>>, kt |-> <<98>>, kc |-> <<98>>],                 \* b
      [k |-> <<98>>, kt |-> <<34, 98, 34>>, kc |-> <<98>>],         \* b in double quotes
      [k |-> <<97, 32, 98>>, kt |-> <<39, 97, 32, 98, 39>>,
       kc |-> <<39, 97, 32, 98, 39>>] }                            \* 'a b'
PairValues ==
    { [v |-> Number(FALSE, 1, 0), vt |-> <<49>>],                  \* 1
      [v |-> String(<<120>>), vt |-> <<39, 120, 39>>] }            \* 'x'
Pairs ==
    {[k |-> pk.k, kt |-> pk.kt, kc |-> pk.kc, v |-> pv.v, vt |-> pv.vt] :
        pk \in PairKeys, pv \in PairValues}
PairSeqs == SeqsUpTo(Pairs, MaxPairs) \ {<<>>}

\* '(' kt ':' vt ',' ... ')'
ObjectText(ps) ==
    <<LPAREN>> \o Join([i \in 1..Len(ps) |-> ps[i].kt \o <<COLON>> \o ps[i].vt], <<COMMA>>)
    \o <<RPAREN>>

Givens ==
    {[kind |-> "text", chars |-> cs] : cs \in ShortTexts \cup TokenTexts}
    \cup {[kind |-> "value", v |-> v] : v \in Values}
    \cup {[kind |-> "pairs", ps |-> ps] : ps \in PairSeqs}

TextOf(g) ==
    IF g.kind = "text" THEN Utf8Encode(g.chars)
    ELSE IF g.kind = "value" THEN stringify(g.v)
    ELSE Utf8Encode(ObjectText(g.ps))

\* Parser::new
Init ==
    /\ given \in Givens
    /\ input = TextOf(given)
    /\ pos = 0
    /\ mode = "start"
    /\ stack = <<>>
    /\ quote = 0
    /\ buf = <<>>
    /\ start = 0
    /\ ret = NoValue
    /\ result = NoResult

Spec == Init /\ [][Next]_vars

\* ------------------------------------------------------------------ claims
Finished == mode = "done"
Returned == Finished /\ result.status = "ok"
Failed(msg) == Finished /\ result.status = "err" /\ result.message = msg

WsBytes == {SPACE, TAB, CR, LF}
AllWhitespace(bs) == \A i \in 1..Len(bs) : bs[i] \in WsBytes
\* the offset of the first byte at or after p that is not whitespace, the
\* length of the text if there is none
FirstSignificant(bs, p) ==
    CHOOSE q \in p..Len(bs) :
        /\ q = Len(bs) \/ bs[q + 1] \notin WsBytes
        /\ \A r \in p..(q - 1) : bs[r + 1] \in WsBytes

\* a < b in lexicographic order
LexLess(a, b) ==
    \E n \in 0..Len(a) :
        /\ n <= Len(b)
        /\ \A i \in 1..n : a[i] = b[i]
        /\ IF n = Len(a) THEN n < Len(b) ELSE n < Len(b) /\ a[n + 1] < b[n + 1]

\* C1: round trip.  For every Value v of finite numbers and keys needing no
\* escaping, with any string payloads, parse(stringify(v)) succeeds and
\* returns a Value equal to v.
C1_RoundTrip ==
    (Finished /\ given.kind = "value")
        => (result.status = "ok" /\ ValueEq(result.value, given.v))

\* C2: parse is total.  Every call returns Ok(Value) or Err(Error); no
\* parsing step panics.
C2_NeverPanics ==
    Finished => result.status \in {"ok", "err"}

\* C3: trailing content.  Once a complete value is decoded at top level,
\* parse returns that value if only whitespace remains, and otherwise the
\* error "Unexpected trailing content" at the offset of the first byte after
\* the value that is not whitespace; an accepted input is consumed whole,
\* and "true false" fails at offset 5.
C3_TrailingContent ==
    /\ [][(mode = "return" /\ stack = <<>>)
            => LET p == FirstSignificant(input, pos)
               IN  IF p < Len(input)
                   THEN result' = Err("Unexpected trailing content", p)
                   ELSE result' = Ok(ret)]_vars
    /\ [](Returned => pos = Len(input))
    /\ []((Finished /\ given = [kind |-> "text",
                                chars |-> <<116, 114, 117, 101, 32, 102, 97, 108, 115, 101>>])
            => result = Err("Unexpected trailing content", 5))

\* a value was decoded, whitespace was skipped after it, and a byte remained
C3_Witness ==
    /\ Failed("Unexpected trailing content")
    /\ result.position >= 2
    /\ input[result.position] \in WsBytes

\* C4: in a quoted string, \u is accepted only when four hex digits follow
\* it: the escape then contributes the one char of that code and the cursor
\* moves past the four digits; an Error for it is "Invalid unicode scalar
\* value" when the four digits are a code in D800..DFFF, and "Invalid
\* unicode escape" when the four bytes are not four hex digits.
C4_UnicodeEscape ==
    [][(mode = "quoted" /\ peek(input, pos) = BACKSLASH /\ peek(input, pos + 1) = 117)
         => LET p == pos + 2
                four == /\ p + 4 <= Len(input)
                        /\ \A i \in 1..4 : HexDigit(input[p + i])
                code == HexValue(Slice(input, p, p + 4))
            IN  /\ mode' = "quoted"
                    => four /\ buf' = Append(buf, code) /\ pos' = p + 4
                /\ result'.status = "err"
                    => result'.message = (IF four THEN "Invalid unicode scalar value"
                                          ELSE "Invalid unicode escape")
                /\ (four /\ code \in 55296..57343) => result'.status = "err"]_vars

\* C5: a text that is one bare token (no delimiter, no whitespace byte,
\* not starting with a quote, a digit or '-') decodes to Bool(true),
\* Bool(false) or Null exactly when it is true, false or null; a longer
\* token that starts with one of the keywords decodes to a String holding
\* the whole token.
BareToken(bs) ==
    /\ bs # <<>>
    /\ \A i \in 1..Len(bs) : ~is_delimiter(bs[i]) /\ ~is_whitespace(bs[i])
    /\ bs[1] \notin {SQUOTE, DQUOTE, MINUS}
    /\ ~Digit(bs[1])
StartsWith(bs, kw) == Len(bs) >= Len(kw) /\ SubSeq(bs, 1, Len(kw)) = kw
C5_KeywordOrWholeToken ==
    (Finished /\ BareToken(input))
        => /\ input = KwTrue <=> result = Ok(Bool(TRUE))
           /\ input = KwFalse <=> result = Ok(Bool(FALSE))
           /\ input = KwNull <=> result = Ok(Null)
           /\ (/\ input \notin {KwTrue, KwFalse, KwNull}
               /\ \E kw \in {KwTrue, KwFalse, KwNull} : StartsWith(input, kw))
                 => result = Ok(String(Utf8Decode(input)))

\* C6: an object text that lists pairs, a key more than once (bare or
\* quoted), parses to an Object with one entry per distinct key, holding the
\* value of the key's last occurrence in the text.
KeysOf(ps) == {ps[i].k : i \in 1..Len(ps)}
LastOf(ps, k) == CHOOSE i \in 1..Len(ps) : ps[i].k = k /\ \A j \in (i + 1)..Len(ps) : ps[j].k # k
C6_LastWins ==
    (Finished /\ given.kind = "pairs")
        => /\ result.status = "ok"
           /\ result.value.t = "Object"
           /\ LET map == result.value.map
                  ps == given.ps
              IN  /\ Len(map) = Cardinality(KeysOf(ps))
                  /\ {map[i].k : i \in 1..Len(map)} = KeysOf(ps)
                  /\ \A i \in 1..Len(map) : map[i].v = ps[LastOf(ps, map[i].k)].v

\* a key written bare and quoted, with two values, the last one kept
C6_Witness ==
    /\ Returned
    /\ given.kind = "pairs"
    /\ \E i, j \in 1..Len(given.ps) :
          /\ i < j
          /\ given.ps[i].k = given.ps[j].k
          /\ given.ps[i].kt # given.ps[j].kt
          /\ given.ps[i].v # given.ps[j].v
          /\ j = LastOf(given.ps, given.ps[j].k)
          /\ \E n \in 1..Len(result.value.map) :
                result.value.map[n] = [k |-> given.ps[j].k, v |-> given.ps[j].v]

\* C7: stringify of a decoded Object lists the keys strictly ascending, as
\* `key: value` joined by ", " between '(' and ')', whatever the order of
\* the pairs in the text: the output is a function of the set of pairs.
\* "(b: 'x', a: 'y')" encodes back as "(a: 'y', b: 'x')".
RECURSIVE Ascending(_)
Ascending(S) ==
    IF S = {} THEN <<>>
    ELSE LET m == CHOOSE x \in S : \A y \in S : x = y \/ LexLess(x.k, y.k)
         IN  <<m>> \o Ascending(S \ {m})
Canonical(S) ==
    LET es == Ascending(S)
    IN  <<LPAREN>>
        \o Join([i \in 1..Len(es) |-> es[i].kc \o <<COLON, SPACE>> \o es[i].vt], <<COMMA, SPACE>>)
        \o <<RPAREN>>
DistinctKeys(ps) == Cardinality(KeysOf(ps)) = Len(ps)
C7_AscendingKeys ==
    /\ (Finished /\ given.kind = "pairs" /\ DistinctKeys(given.ps))
          => /\ result.status = "ok"
             /\ stringify(result.value)
                  = Utf8Encode(Canonical({[k |-> given.ps[i].k, kc |-> given.ps[i].kc,
                                           vt |-> given.ps[i].vt] : i \in 1..Len(given.ps)}))
             /\ \A i, j \in 1..Len(result.value.map) :
                   i < j => LexLess(result.value.map[i].k, result.value.map[j].k)
    /\ (Finished /\ given = [kind |-> "text",
                             chars |-> <<40, 98, 58, 32, 39, 120, 39, 44, 32, 97, 58, 32,
                                         39, 121, 39, 41>>])
          => /\ result.status = "ok"
             /\ stringify(result.value)
                  = <<40, 97, 58, 32, 39, 121, 39, 44, 32, 98, 58, 32, 39, 120, 39, 41>>

\* three pairs whose keys are not in ascending order in the text
C7_Witness ==
    /\ Returned
    /\ given.kind = "pairs"
    /\ DistinctKeys(given.ps)
    /\ Len(given.ps) = 3
    /\ LexLess(given.ps[3].k, given.ps[2].k)
    /\ LexLess(given.ps[2].k, given.ps[1].k)

\* C8: at a value position that starts with a digit or '-', the token is a
\* Date, the cursor 23 further, exactly when the next 23 bytes match the
\* pattern and are followed by a delimiter, whitespace or the end; in every
\* other case the cursor stays and number parsing runs, which ends in a
\* Number or in one of its three errors.
C8_DateOrNumber ==
    /\ [][(mode = "value" /\ DateOrNumberByte(peek(input, FirstSignificant(input, pos))))
            => LET p == FirstSignificant(input, pos)
                   q == p + DatetimeLen
                   isDate == /\ q <= Len(input)
                             /\ ParseDatetime(Slice(input, p, q)).ok
                             /\ (q = Len(input) \/ is_delimiter(input[q + 1])
                                 \/ is_whitespace(input[q + 1]))
               IN  IF isDate
                   THEN mode' = "return" /\ ret'.t = "Date" /\ pos' = q
                   ELSE mode' = "number" /\ start' = p /\ pos' = p]_vars
    /\ [][(mode = "number" /\ mode' # "number")
            => \/ mode' = "return" /\ ret'.t = "Number"
               \/ /\ result'.status = "err"
                  /\ result'.message \in {"Invalid number boundary", "Invalid number",
                                          "Non-finite number"}]_vars

\* C9: a text that is empty or all whitespace fails with "Unexpected end of
\* input" at its length, and so does any text that ends, after optional
\* whitespace, where a value is expected; that error is never reported
\* anywhere but at the length of the text.
C9_EndOfInput ==
    /\ []((Finished /\ AllWhitespace(input))
            => result = Err("Unexpected end of input", Len(input)))
    /\ [][(mode = "value" /\ FirstSignificant(input, pos) = Len(input))
            => result' = Err("Unexpected end of input", Len(input))]_vars
    /\ [](Failed("Unexpected end of input") => result.position = Len(input))

\* the text ends in whitespace after '[', '|' or ':' where a value is due
C9_Witness ==
    /\ Failed("Unexpected end of input")
    /\ Len(input) >= 2
    /\ input[Len(input)] \in WsBytes
    /\ \E i \in 1..Len(input) : input[i] \in {LBRACKET, PIPE, COLON}

\* C10: the cursor stays within 0..len and never moves back, every
\* iteration of the quoted-string, unquoted-string, number, object and array
\* loops that goes on to another iteration moves it forward, and every
\* Error carries a position within 0..len.
LoopContinues ==
    \/ mode \in {"quoted", "unquoted", "number"} /\ mode' = mode
    \/ mode = "return" /\ stack # <<>> /\ mode' \in {"key", "value"}
C10_Cursor ==
    /\ [](pos \in 0..Len(input))
    /\ [][pos' >= pos]_vars
    /\ [][LoopContinues => pos' > pos]_vars
    /\ [](result.status = "err" => result.position \in 0..Len(input))

\* an error inside a nested value, reported at an offset strictly inside the text
C10_Witness ==
    /\ Finished
    /\ result.status = "err"
    /\ result.position > 2
    /\ result.position < Len(input)
    /\ input[1] \in {LPAREN, LBRACKET}

====
